---- MODULE Spec2Model ----
(***************************************************************************)
(* DFStore (workbench_bridges/aws/df_store.py) and the not-found wrapper   *)
(* (workbench_bridges/utils/aws_utils.py) as a state machine.              *)
(*                                                                         *)
(* Strings are sequences of tokens; a token is a substring that the string *)
(* operations of the code never cut ("df_store", "/", ".parquet", a name   *)
(* letter, a uuid).  The S3 bucket is a function from object keys to       *)
(* objects.  Spec runs the handlers one call at a time, each handler as    *)
(* one action; ConcSpec interleaves the remote steps of two upsert calls.  *)
(***************************************************************************)
EXTENDS Integers, Sequences, FiniteSets, TLC

VARIABLES s3, now, op, procs

vars == <<s3, now, op, procs>>

-----------------------------------------------------------------------------
(* Bounds *)

\* Number of object writes (S3 puts) in one run.
MaxWrites == 2

-----------------------------------------------------------------------------
(* Python string operations *)

StartsWith(s, p) == Len(s) >= Len(p) /\ SubSeq(s, 1, Len(p)) = p

\* str.replace(old, new): left to right, non-overlapping occurrences.
RECURSIVE Replace(_, _, _)
Replace(s, old, new) ==
    IF Len(s) < Len(old) THEN s
    ELSE IF SubSeq(s, 1, Len(old)) = old
         THEN new \o Replace(SubSeq(s, Len(old) + 1, Len(s)), old, new)
         ELSE <<Head(s)>> \o Replace(Tail(s), old, new)

\* str.split(sep)[0]: the part before the first occurrence of sep.
RECURSIVE SplitFirst(_, _)
SplitFirst(s, sep) ==
    IF Len(s) < Len(sep) THEN s
    ELSE IF SubSeq(s, 1, Len(sep)) = sep THEN <<>>
         ELSE <<Head(s)>> \o SplitFirst(Tail(s), sep)

-----------------------------------------------------------------------------
(* Construction (DFStore.__init__) *)

\* self.prefix = "df_store/"
prefix == <<"df_store", "/">>

\* self.df_bucket
df_bucket == <<"bucket">>

Extension == <<".parquet">>

-----------------------------------------------------------------------------
(* Names and payloads the calls are made with *)

\* "a", "/a" and "b": "a" and "/a" differ as strings.
Names == {<<"a">>, <<"/", "a">>, <<"b">>}

ColNames == {"A", "B"}

Values == {1, 2}

ColumnValues == [1..1 -> Values]

\* pd.DataFrame: an ordered sequence of named columns.
DataFrame(cols) == [type |-> "DataFrame", cols |-> cols]

\* pd.Series: one named column.
Series(name, values) == [type |-> "Series", name |-> name, values |-> values]

Columns == [name : ColNames, values : ColumnValues]

\* Every one-column frame, and a two-column frame in both column orders.
DataFrames ==
    {DataFrame(<<c>>) : c \in Columns}
    \cup {DataFrame(<<[name |-> "A", values |-> <<1>>], [name |-> "B", values |-> <<2>>]>>),
          DataFrame(<<[name |-> "B", values |-> <<2>>], [name |-> "A", values |-> <<1>>]>>)}

SeriesSet == {Series(n, v) : n \in ColNames, v \in ColumnValues}

\* A payload that is neither a DataFrame nor a Series.
OtherPayload == [type |-> "dict"]

Payloads == DataFrames \cup SeriesSet \cup {OtherPayload}

\* pd.DataFrame(): no rows, no columns.
EmptyDataFrame == DataFrame(<<>>)

\* Series.to_frame()
ToFrame(s) == DataFrame(<<[name |-> s.name, values |-> s.values]>>)

-----------------------------------------------------------------------------
(* Exceptions *)

NoExc == [type |-> "none", code |-> "none"]

ClientError(c) == [type |-> "ClientError", code |-> c]

NoFilesFound == [type |-> "NoFilesFound", code |-> "none"]

ValueError == [type |-> "ValueError", code |-> "none"]

\* A failure of the remote call that is no ClientError (botocore's
\* EndpointConnectionError is a BotoCoreError).
ConnectionError == [type |-> "EndpointConnectionError", code |-> "none"]

\* What a remote call of DFStore can fail with; NoExc is no failure.
Faults == {NoExc, ClientError("NoSuchBucket"), ClientError("AccessDenied"), ConnectionError}

-----------------------------------------------------------------------------
(* NameCodec *)

\* DFStore._generate_s3_uri: "s3://" + (bucket/prefix + name + ".parquet")
\* with every "//" replaced by "/".
GenerateS3Uri(name) ==
    <<"s3://">> \o Replace(df_bucket \o <<"/">> \o prefix \o name \o Extension,
                           <<"/", "/">>, <<"/">>)

\* The object key of an S3 URI s3://<bucket>/<key>.
UriKey(uri) == SubSeq(uri, 4, Len(uri))

\* details(): full_key.replace(prefix, "/").split(".parquet")[0]
DecodeName(full_key) == SplitFirst(Replace(full_key, prefix, <<"/">>), Extension)

\* details(): f"s3://{self.df_bucket}/{full_key}"
S3File(full_key) == <<"s3://">> \o df_bucket \o <<"/">> \o full_key

-----------------------------------------------------------------------------
(* TableCodec: a DataFrame as a parquet blob and back *)

\* NaN, the value of a cell no file provides.
Null == 0

RowCount(df) == IF df.cols = <<>> THEN 0 ELSE Len(df.cols[1].values)

\* The parquet file of a DataFrame: the schema and one chunk per column.
EncodeParquet(df) ==
    [schema |-> [i \in 1..Len(df.cols) |-> df.cols[i].name],
     chunks |-> [i \in 1..Len(df.cols) |-> df.cols[i].values],
     codec  |-> "snappy"]

DecodeParquet(blob) ==
    DataFrame([i \in 1..Len(blob.schema) |->
                  [name |-> blob.schema[i], values |-> blob.chunks[i]]])

\* Size in bytes of the object, counted in cells and schema entries.
BlobSize(blob) ==
    Len(blob.schema) + (IF Len(blob.chunks) = 0 THEN 0
                        ELSE Len(blob.chunks) * Len(blob.chunks[1]))

HasColumn(df, n) == \E i \in 1..Len(df.cols) : df.cols[i].name = n

ColumnOf(df, n) ==
    IF HasColumn(df, n)
    THEN df.cols[CHOOSE i \in 1..Len(df.cols) : df.cols[i].name = n].values
    ELSE [j \in 1..RowCount(df) |-> Null]

\* The rows of df appended to those of acc, columns unified by name.
AppendFrame(acc, df) ==
    LET new   == SelectSeq(df.cols, LAMBDA c : ~HasColumn(acc, c.name))
        names == [i \in 1..Len(acc.cols) |-> acc.cols[i].name]
                 \o [i \in 1..Len(new) |-> new[i].name]
    IN  DataFrame([i \in 1..Len(names) |->
                      [name   |-> names[i],
                       values |-> ColumnOf(acc, names[i]) \o ColumnOf(df, names[i])]])

RECURSIVE ConcatFrames(_)
ConcatFrames(frames) ==
    IF frames = <<>> THEN EmptyDataFrame
    ELSE AppendFrame(ConcatFrames(SubSeq(frames, 1, Len(frames) - 1)),
                     frames[Len(frames)])

-----------------------------------------------------------------------------
(* The remote store: S3 through awswrangler and boto3 *)

NoObjects == [k \in {} |-> 0]

PutObject(store, key, obj) ==
    [k \in DOMAIN store \cup {key} |-> IF k = key THEN obj ELSE store[k]]

RemoveObjects(store, keys) == [k \in DOMAIN store \ keys |-> store[k]]

\* Keys of the bucket that start with the given key prefix.
KeysUnder(store, keyPrefix) == {k \in DOMAIN store : StartsWith(k, keyPrefix)}

\* wr.s3.list_objects(uri), and the listing behind read_parquet(uri) and
\* delete_objects(uri): a path given as a string is a key prefix.
WrListObjects(store, uri) == KeysUnder(store, UriKey(uri))

\* The orders a listing of these keys can come in.
Orderings(keys) ==
    {f \in [1..Cardinality(keys) -> keys] :
        \A i, j \in 1..Cardinality(keys) : i # j => f[i] # f[j]}

\* wr.s3.read_parquet over the listed files: every file decoded, rows appended.
WrReadParquet(store, keySeq) ==
    ConcatFrames([i \in 1..Len(keySeq) |-> DecodeParquet(store[keySeq[i]].body)])

\* to_parquet(dataset=True): the dataset's root is the path with a trailing
\* "/"; mode="overwrite" deletes what is under the root before writing.
DatasetRoot(uri) == UriKey(uri) \o <<"/">>

\* to_parquet(dataset=True): the file written is <root><uuid>.snappy.parquet.
DatasetFileKey(uri, uuid) == DatasetRoot(uri) \o <<uuid, ".snappy">> \o Extension

Uuid(n) == ToString(n)

S3Object(df, time) ==
    [body |-> EncodeParquet(df), size |-> BlobSize(EncodeParquet(df)), modified |-> time]

-----------------------------------------------------------------------------
(* What a finished call leaves behind: its kind and name argument, the     *)
(* outcome of the wrapped function (for the wrapper), the failure of its   *)
(* remote call (if any), its return value, the exception it raised, the    *)
(* severity it logged at and the number of remote calls it issued.         *)

None == [type |-> "None"]

\* No return value: the call raised.
Raised == [type |-> "raised"]

NoName == <<>>

Call(kind, name, data, fault, ret, exc, log, calls) ==
    [kind |-> kind, name |-> name, data |-> data, fault |-> fault,
     ret |-> ret, exc |-> exc, log |-> log, calls |-> calls]

NoCall == Call("none", NoName, None, NoExc, None, NoExc, "none", 0)

-----------------------------------------------------------------------------
(* DFStore.details *)

DetailsColumns == <<"name", "s3_file", "size", "modified">>

\* The columns of the frame returned from the except branch.
DetailsFailureColumns == <<"name", "s3_file", "size", "created", "modified">>

DetailsFrame(columns, rows) == [type |-> "DetailsFrame", columns |-> columns, rows |-> rows]

\* DetailsRows with a defect: keys that carry no extension are left out.
DetailsRowsSkipForeign(store) ==
    {[name |-> DecodeName(k), s3_file |-> S3File(k),
      size |-> store[k].size, modified |-> store[k].modified] :
        k \in {j \in KeysUnder(store, prefix) : SplitFirst(j, Extension) # j}}

\* One row per object listed under the prefix.
DetailsRows(store) ==
    {[name |-> DecodeName(k), s3_file |-> S3File(k),
      size |-> store[k].size, modified |-> store[k].modified] :
        k \in KeysUnder(store, prefix)}

DetailsResult(store, fault) ==
    IF fault # NoExc
    THEN [ret |-> DetailsFrame(DetailsFailureColumns, {}), log |-> "error"]
    ELSE IF KeysUnder(store, prefix) = {}
         THEN [ret |-> DetailsFrame(DetailsColumns, {}), log |-> "none"]
         ELSE [ret |-> DetailsFrame(DetailsColumns, DetailsRows(store)), log |-> "none"]

Details ==
    \E fault \in Faults :
        LET r == DetailsResult(s3, fault)
        IN  /\ op' = Call("details", NoName, None, fault, r.ret, NoExc, r.log, 1)
            /\ UNCHANGED <<s3, now, procs>>

-----------------------------------------------------------------------------
(* DFStore.summary *)

SummaryColumns == <<"name", "size (MB)", "modified">>

\* (size / (1024 * 1024)).round(2), in hundredths of a MB, half to even.
SizeMB(size) ==
    LET unit == 1024 * 1024
        q    == (size * 100) \div unit
        r    == (size * 100) % unit
    IN  IF 2 * r > unit \/ (2 * r = unit /\ q % 2 = 1) THEN q + 1 ELSE q

\* pd.to_datetime(...).dt.strftime("%Y-%m-%d %H:%M:%S"): the text of the
\* timestamp, to the second.
FormatModified(time) == [format |-> "%Y-%m-%d %H:%M:%S", seconds |-> time]

\* The formatted frame over the frame details() returned.
SummaryResult(store, fault) ==
    LET d == DetailsResult(store, fault)
    IN  [ret |-> [type    |-> "SummaryFrame",
                  columns |-> SummaryColumns,
                  rows    |-> {[name |-> r.name, size_mb |-> SizeMB(r.size),
                                modified |-> FormatModified(r.modified)] :
                                  r \in d.ret.rows}],
         log |-> d.log]

Summary ==
    \E fault \in Faults :
        LET r == SummaryResult(s3, fault)
        IN  /\ op' = Call("summary", NoName, None, fault, r.ret, NoExc, r.log, 1)
            /\ UNCHANGED <<s3, now, procs>>

-----------------------------------------------------------------------------
(* DFStore.get *)

\* wr.s3.read_parquet(s3_uri): the remote failure, or NoFilesFound when no
\* object is listed under the path, or the frame read.
WrReadOutcome(store, uri, fault, keySeq) ==
    IF fault # NoExc THEN [exc |-> fault, ret |-> Raised]
    ELSE IF WrListObjects(store, uri) = {} THEN [exc |-> NoFilesFound, ret |-> Raised]
         ELSE [exc |-> NoExc, ret |-> WrReadParquet(store, keySeq)]

\* try: return read_parquet(uri)  except ClientError: warn, return DataFrame()
GetResult(store, name, fault, keySeq) ==
    LET r == WrReadOutcome(store, GenerateS3Uri(name), fault, keySeq)
    IN  IF r.exc = NoExc THEN [ret |-> r.ret, exc |-> NoExc, log |-> "none"]
        ELSE IF r.exc.type = "ClientError"
             THEN [ret |-> EmptyDataFrame, exc |-> NoExc, log |-> "warning"]
             ELSE [ret |-> Raised, exc |-> r.exc, log |-> "none"]

Get(name) ==
    \E fault \in Faults :
        \E keySeq \in Orderings(WrListObjects(s3, GenerateS3Uri(name))) :
            LET r == GetResult(s3, name, fault, keySeq)
            IN  /\ op' = Call("get", name, None, fault, r.ret, r.exc, r.log, 1)
                /\ UNCHANGED <<s3, now, procs>>

-----------------------------------------------------------------------------
(* DFStore.upsert *)

\* Normalize with a defect: the Series' values are framed without its name.
NormalizeUnnamed(data) ==
    IF data.type = "Series"
    THEN DataFrame(<<[name |-> "0", values |-> data.values]>>)
    ELSE data

\* isinstance(data, pd.Series): data = data.to_frame()
Normalize(data) == IF data.type = "Series" THEN ToFrame(data) ELSE data

\* OverwriteDelete with a defect: mode="append", nothing is deleted.
OverwriteDeleteNothing(store, uri) == store

\* mode="overwrite": the objects under the dataset root are deleted.
OverwriteDelete(store, uri) == RemoveObjects(store, KeysUnder(store, DatasetRoot(uri)))

\* wr.s3.to_parquet(df, path, dataset=True, mode="overwrite"), no failure.
WrToParquet(store, df, uri, uuid, time) ==
    PutObject(OverwriteDelete(store, uri), DatasetFileKey(uri, uuid), S3Object(df, time))

\* The store after to_parquet failed with the old objects still in place
\* ("delete") or already deleted ("put").
WrToParquetFailed(store, uri, stage) ==
    IF stage = "delete" THEN store ELSE OverwriteDelete(store, uri)

\* UpsertInvalid with a defect: the payload is checked by the write itself, the
\* failure is logged and re-raised from the except branch.
UpsertInvalidLate(name, data) ==
    /\ Normalize(data).type # "DataFrame"
    /\ op' = Call("upsert", name, None, NoExc, Raised, ValueError, "critical", 1)
    /\ UNCHANGED <<s3, now, procs>>

UpsertInvalid(name, data) ==
    /\ Normalize(data).type # "DataFrame"
    /\ op' = Call("upsert", name, None, NoExc, Raised, ValueError, "none", 0)
    /\ UNCHANGED <<s3, now, procs>>

UpsertOk(name, data) ==
    /\ Normalize(data).type = "DataFrame"
    /\ now < MaxWrites
    /\ now' = now + 1
    /\ op' = Call("upsert", name, None, NoExc, None, NoExc, "info", 1)
    /\ s3' = WrToParquet(s3, Normalize(data), GenerateS3Uri(name), Uuid(now'), now')
    /\ UNCHANGED procs

\* UpsertFailed with a defect: the failure is logged and swallowed, as in delete.
UpsertFailedSwallowed(name) ==
    /\ {data \in Payloads : Normalize(data).type = "DataFrame"} # {}
    /\ \E fault \in Faults \ {NoExc} : \E stage \in {"delete", "put"} :
        /\ s3' = WrToParquetFailed(s3, GenerateS3Uri(name), stage)
        /\ op' = Call("upsert", name, None, fault, None, NoExc, "error", 1)
    /\ UNCHANGED <<now, procs>>

\* The write failed, for any payload that passed the isinstance checks:
\* what is logged and raised does not depend on the frame.
UpsertFailed(name) ==
    /\ {data \in Payloads : Normalize(data).type = "DataFrame"} # {}
    /\ \E fault \in Faults \ {NoExc} : \E stage \in {"delete", "put"} :
        /\ s3' = WrToParquetFailed(s3, GenerateS3Uri(name), stage)
        /\ op' = Call("upsert", name, None, fault, Raised, fault, "critical", 1)
    /\ UNCHANGED <<now, procs>>

Upsert(name) ==
    \/ \E data \in Payloads : UpsertInvalid(name, data)
    \/ \E data \in Payloads : UpsertOk(name, data)
    \/ UpsertFailed(name)

\* The steps of upsert(name, data) for one payload.
UpsertCall(name, data) ==
    \/ UpsertInvalid(name, data)
    \/ UpsertOk(name, data)
    \/ Normalize(data).type = "DataFrame" /\ UpsertFailed(name)

-----------------------------------------------------------------------------
(* DFStore.delete *)

\* wr.s3.delete_objects(s3_uri): every object listed under the path.
WrDeleteObjects(store, uri) == RemoveObjects(store, WrListObjects(store, uri))

\* wr.s3.list_objects(s3_uri) failed: the call is outside the try.
DeleteListFailed(name) ==
    \E fault \in Faults \ {NoExc} :
        /\ op' = Call("delete", name, None, fault, Raised, fault, "none", 1)
        /\ UNCHANGED <<s3, now, procs>>

\* if not wr.s3.list_objects(s3_uri): warn and return
DeleteAbsent(name) ==
    /\ WrListObjects(s3, GenerateS3Uri(name)) = {}
    /\ op' = Call("delete", name, None, NoExc, None, NoExc, "warning", 1)
    /\ UNCHANGED <<s3, now, procs>>

DeletePresent(name) ==
    /\ WrListObjects(s3, GenerateS3Uri(name)) # {}
    /\ \E fault \in Faults :
        IF fault = NoExc
        THEN /\ s3' = WrDeleteObjects(s3, GenerateS3Uri(name))
             /\ op' = Call("delete", name, None, NoExc, None, NoExc, "info", 2)
        ELSE /\ s3' = s3
             /\ op' = Call("delete", name, None, fault, None, NoExc, "error", 2)
    /\ UNCHANGED <<now, procs>>

Delete(name) ==
    \/ DeleteListFailed(name)
    \/ DeleteAbsent(name)
    \/ DeletePresent(name)

-----------------------------------------------------------------------------
(* not_found_returns_none *)

not_found_errors ==
    {"ResourceNotFound", "ResourceNotFoundException", "EntityNotFoundException",
     "ValidationException", "NoSuchBucket"}

\* Error codes outside the set.
OtherCodes == {"SomeOtherError", "AccessDenied"}

\* What the wrapped function does: it returns a value or raises.
InnerOutcomes ==
    {[ret |-> v, exc |-> NoExc] : v \in {None, EmptyDataFrame} \cup SeriesSet}
    \cup {[ret |-> Raised, exc |-> e] :
            e \in {ClientError(c) : c \in not_found_errors \cup OtherCodes}
                  \cup {NoFilesFound, ValueError}}

\* Wrapper with a defect: every ClientError counts as not found.
WrapperSwallowsClientError(inner) ==
    IF inner.exc = NoExc THEN [ret |-> inner.ret, exc |-> NoExc, log |-> "none"]
    ELSE IF inner.exc.type \in {"ClientError", "NoFilesFound"}
         THEN [ret |-> None, exc |-> NoExc, log |-> "warning"]
         ELSE [ret |-> Raised, exc |-> inner.exc, log |-> "none"]

\* wrapper(*args, **kwargs)
Wrapper(inner) ==
    IF inner.exc = NoExc THEN [ret |-> inner.ret, exc |-> NoExc, log |-> "none"]
    ELSE IF inner.exc.type = "ClientError"
         THEN IF inner.exc.code \in not_found_errors
              THEN [ret |-> None, exc |-> NoExc, log |-> "warning"]
              ELSE [ret |-> Raised, exc |-> inner.exc, log |-> "critical"]
         ELSE IF inner.exc.type = "NoFilesFound"
              THEN [ret |-> None, exc |-> NoExc, log |-> "info"]
              ELSE [ret |-> Raised, exc |-> inner.exc, log |-> "none"]

CallWrapped ==
    \E inner \in InnerOutcomes :
        LET r == Wrapper(inner)
        IN  /\ op' = Call("wrapped", NoName, inner, inner.exc, r.ret, r.exc, r.log, 1)
            /\ UNCHANGED <<s3, now, procs>>

-----------------------------------------------------------------------------
(* One call at a time *)

Init ==
    /\ s3 = NoObjects
    /\ now = 0
    /\ op = NoCall
    /\ procs = <<>>

Next ==
    \/ Details
    \/ Summary
    \/ \E name \in Names : Get(name)
    \/ \E name \in Names : Upsert(name)
    \/ \E name \in Names : Delete(name)
    \/ CallWrapped

Spec == Init /\ [][Next]_vars

-----------------------------------------------------------------------------
(* The same calls on a bucket where another writer has left an object      *)
(* under the prefix whose key does not carry the extension.                *)

\* "df_store/readme"
ForeignKey == prefix \o <<"readme">>

\* An object that is no parquet file.
ForeignObject ==
    [body |-> [schema |-> <<>>, chunks |-> <<>>, codec |-> "none"],
     size |-> Len(ForeignKey), modified |-> 0]

ForeignInit ==
    /\ s3 = PutObject(NoObjects, ForeignKey, ForeignObject)
    /\ now = 0
    /\ op = NoCall
    /\ procs = <<>>

ForeignSpec == ForeignInit /\ [][Next]_vars

-----------------------------------------------------------------------------
(* Two concurrent upsert calls.  DFStore holds no lock: the remote steps   *)
(* of to_parquet(dataset=True, mode="overwrite") of the two calls          *)
(* interleave freely: list the dataset root, delete what was listed, put   *)
(* the new file.  A get follows when both calls have returned.             *)

Procs == {1, 2}

\* The frame stored before the two calls start, when there is one.
PriorFrame == DataFrame(<<[name |-> "A", values |-> <<2>>]>>)

ConcInit ==
    /\ now = 0
    /\ op = NoCall
    /\ procs \in [Procs -> [pc : {"start"}, name : Names,
                            data : DataFrames \cup SeriesSet, listed : {{}}]]
    /\ \/ s3 = NoObjects
       \/ s3 = WrToParquet(NoObjects, PriorFrame, GenerateS3Uri(procs[1].name), Uuid(0), 0)

\* isinstance checks and to_frame; the payload is supported.
ConcStart(p) ==
    /\ procs[p].pc = "start"
    /\ Normalize(procs[p].data).type = "DataFrame"
    /\ procs' = [procs EXCEPT ![p].pc = "list", ![p].data = Normalize(procs[p].data)]
    /\ UNCHANGED <<s3, now, op>>

\* delete_objects(root), first half: the keys under the dataset root are listed.
ConcList(p) ==
    /\ procs[p].pc = "list"
    /\ procs' = [procs EXCEPT ![p].pc = "delete",
                              ![p].listed = KeysUnder(s3, DatasetRoot(GenerateS3Uri(procs[p].name)))]
    /\ UNCHANGED <<s3, now, op>>

\* delete_objects(root), second half: the listed keys are deleted.
ConcDelete(p) ==
    /\ procs[p].pc = "delete"
    /\ s3' = RemoveObjects(s3, procs[p].listed)
    /\ procs' = [procs EXCEPT ![p].pc = "put"]
    /\ UNCHANGED <<now, op>>

\* The new file <root><uuid>.snappy.parquet is put; upsert returns.
ConcPut(p) ==
    /\ procs[p].pc = "put"
    /\ now' = now + 1
    /\ s3' = PutObject(s3, DatasetFileKey(GenerateS3Uri(procs[p].name), Uuid(now')),
                       S3Object(procs[p].data, now'))
    /\ procs' = [procs EXCEPT ![p].pc = "done"]
    /\ UNCHANGED op

AllDone == \A p \in Procs : procs[p].pc = "done"

\* get(name) of the first call's name, after both calls returned.
ConcGet ==
    /\ AllDone
    /\ op.kind = "none"
    /\ \E keySeq \in Orderings(WrListObjects(s3, GenerateS3Uri(procs[1].name))) :
          LET r == GetResult(s3, procs[1].name, NoExc, keySeq)
          IN  op' = Call("get", procs[1].name, None, NoExc, r.ret, r.exc, r.log, 1)
    /\ UNCHANGED <<s3, now, procs>>

ConcNext ==
    \/ \E p \in Procs : ConcStart(p)
    \/ \E p \in Procs : ConcList(p)
    \/ \E p \in Procs : ConcDelete(p)
    \/ \E p \in Procs : ConcPut(p)
    \/ ConcGet

ConcSpec == ConcInit /\ [][ConcNext]_vars

-----------------------------------------------------------------------------
(* Claims *)

\* C1: round trip.  For every name n and every supported payload d (a
\* DataFrame, or a Series, which stands for the one-column DataFrame of its
\* name and values), right after a successful upsert(n, d) a get(n) whose
\* remote read does not fail returns that DataFrame: same column names, same
\* order, same values, and raises nothing.  (Only a successful upsert
\* advances the clock, and the call record holds its name: the tests on
\* them single out the upsert steps.)
RoundTrip ==
    [][now' # now => \A n \in {op'.name} : \A d \in Payloads :
          UpsertOk(n, d) =>
              LET table == IF d.type = "Series"
                           THEN DataFrame(<<[name |-> d.name, values |-> d.values]>>)
                           ELSE d
              IN  \A keySeq \in Orderings(WrListObjects(s3', GenerateS3Uri(n))) :
                      GetResult(s3', n, NoExc, keySeq)
                          = [ret |-> table, exc |-> NoExc, log |-> "none"]]_vars

\* A get, right after upserts, that returned a stored two-column frame.
RoundTripWitness ==
    /\ op.kind = "get"
    /\ op.fault = NoExc
    /\ op.exc = NoExc
    /\ op.ret = DataFrame(<<[name |-> "B", values |-> <<2>>], [name |-> "A", values |-> <<1>>]>>)
    /\ now = MaxWrites

\* C2: absence is empty, not an error.  A get(n) of a name with no stored
\* object, whose remote read reports the absence as "no files found" (no
\* remote failure) or as a ClientError with a not-found code, returns the
\* empty DataFrame and raises nothing.
AbsenceIsEmpty ==
    (/\ op.kind = "get"
     /\ WrListObjects(s3, GenerateS3Uri(op.name)) = {}
     /\ \/ op.fault = NoExc
        \/ op.fault.type = "ClientError" /\ op.fault.code = "NoSuchBucket")
    => (op.exc = NoExc /\ op.ret = EmptyDataFrame)

\* C3: overwrite semantics.  Right after a successful upsert(n, d), whatever
\* was stored for n before, get(n) returns exactly d (no rows of an earlier
\* payload) and details() holds exactly one row for the object of n (a row
\* whose s3_file lies under the URI of n).
OverwriteSemantics ==
    [][now' # now => \A n \in {op'.name} : \A d \in Payloads :
          UpsertOk(n, d) =>
              /\ \A keySeq \in Orderings(WrListObjects(s3', GenerateS3Uri(n))) :
                     GetResult(s3', n, NoExc, keySeq).ret
                         = (IF d.type = "Series"
                            THEN DataFrame(<<[name |-> d.name, values |-> d.values]>>)
                            ELSE d)
              /\ Cardinality({r \in DetailsResult(s3', NoExc).ret.rows :
                                 StartsWith(r.s3_file, GenerateS3Uri(n))}) = 1]_vars

\* The second upsert to a name: one object, written by the second call.
OverwriteWitness ==
    /\ op.kind = "upsert"
    /\ op.exc = NoExc
    /\ now = 2
    /\ Cardinality(DOMAIN s3) = 1
    /\ \A k \in DOMAIN s3 : s3[k].modified = 2

\* C4: delete is idempotent.  A delete(n) of an absent name returns without
\* raising and leaves the store as it was; a delete(n) of a present name
\* removes it, and a get(n) right after it returns the empty DataFrame
\* without raising.
DeleteIdempotent ==
    [][(op'.kind = "delete" /\ op'.fault = NoExc) =>
          LET uri == GenerateS3Uri(op'.name)
          IN  /\ op'.exc = NoExc
              /\ WrListObjects(s3, uri) = {} => s3' = s3
              /\ WrListObjects(s3, uri) # {} =>
                     /\ WrListObjects(s3', uri) = {}
                     /\ GetResult(s3', op'.name, NoExc, <<>>)
                            = [ret |-> EmptyDataFrame, exc |-> NoExc, log |-> "none"]]_vars

\* C5: error classification.  The wrapper returns the wrapped function's
\* result unchanged when it succeeds; returns None when it raises a
\* ClientError whose code is one of the five not-found codes, or
\* NoFilesFound; and lets a ClientError of any other code propagate, the
\* same exception with the same code.
ErrorClassification ==
    op.kind = "wrapped" =>
        LET inner == op.data
        IN  /\ inner.exc = NoExc => (op.exc = NoExc /\ op.ret = inner.ret)
            /\ (\/ /\ inner.exc.type = "ClientError"
                   /\ inner.exc.code \in {"ResourceNotFound", "ResourceNotFoundException",
                                          "EntityNotFoundException", "ValidationException",
                                          "NoSuchBucket"}
                \/ inner.exc.type = "NoFilesFound")
               => (op.exc = NoExc /\ op.ret = None)
            /\ (/\ inner.exc.type = "ClientError"
                /\ inner.exc.code \notin {"ResourceNotFound", "ResourceNotFoundException",
                                          "EntityNotFoundException", "ValidationException",
                                          "NoSuchBucket"})
               => (op.exc = inner.exc /\ op.ret = Raised)

\* A wrapped call that raised a ClientError outside the not-found set.
ErrorClassificationWitness ==
    /\ op.kind = "wrapped"
    /\ op.data.exc = ClientError("SomeOtherError")
    /\ op.exc = ClientError("SomeOtherError")

\* C6: an upsert whose payload is neither a DataFrame nor a Series raises
\* ValueError before any remote call: no remote call is issued and the
\* store is unchanged.
InvalidInputRejected ==
    [][op'.kind = "upsert" => \A d \in Payloads :
          (d.type \notin {"DataFrame", "Series"} /\ UpsertCall(op'.name, d)) =>
              /\ op'.exc = ValueError
              /\ op'.calls = 0
              /\ s3' = s3]_vars

\* An upsert that raised ValueError while objects were stored.
InvalidInputWitness ==
    /\ op.kind = "upsert"
    /\ op.exc = ValueError
    /\ DOMAIN s3 # {}

\* C7: the write path is strict.  Whenever the remote write of an upsert
\* fails, upsert logs at critical severity and raises that failure; it
\* does not return.
WriteIsStrict ==
    (op.kind = "upsert" /\ op.fault # NoExc) =>
        /\ op.exc = op.fault
        /\ op.ret = Raised
        /\ op.log = "critical"

\* An upsert whose write failed with a connection error.
WriteIsStrictWitness ==
    /\ op.kind = "upsert"
    /\ op.fault = ConnectionError
    /\ op.exc = ConnectionError

\* C9: details() is a best-effort read.  When the remote listing fails,
\* details() raises nothing and returns the frame it returns on an empty
\* store: no rows, and the columns name, s3_file, size, modified.
DetailsBestEffort ==
    (op.kind = "details" /\ op.fault # NoExc) =>
        /\ op.exc = NoExc
        /\ op.ret = DetailsFrame(<<"name", "s3_file", "size", "modified">>, {})

\* C10: the listing reflects the store and decode inverts encode.  Right
\* after a successful upsert(n, d), details() reports one row per stored
\* object and exactly one row whose name is n, the string passed to upsert.
ListingReflectsStore ==
    [][now' # now => \A n \in {op'.name} : \A d \in Payloads :
          UpsertOk(n, d) =>
              LET rows == DetailsResult(s3', NoExc).ret.rows
              IN  /\ Cardinality(rows) = Cardinality(DOMAIN s3')
                  /\ Cardinality({r \in rows : r.name = n}) = 1]_vars

\* C8: concurrent upserts.  When two upsert calls for the same name, with
\* payloads A and B, have both returned, whatever the interleaving of their
\* remote steps, exactly one object is stored for the name and get(name)
\* returns exactly A or exactly B.
ConcurrentUpsertsLastWins ==
    (AllDone /\ procs[1].name = procs[2].name) =>
        /\ Cardinality(WrListObjects(s3, GenerateS3Uri(procs[1].name))) = 1
        /\ op.kind = "get" => (/\ op.exc = NoExc
                               /\ op.ret \in {procs[1].data, procs[2].data})

\* C11 as claimed: foreign objects are skipped.  When the listing under the
\* prefix holds a key without the extension, details() raises nothing,
\* reports no row for that key, and still reports the rows of the other keys.
ForeignObjectsSkipped ==
    (op.kind = "details" /\ op.fault = NoExc /\ ForeignKey \in DOMAIN s3) =>
        /\ op.exc = NoExc
        /\ \A r \in op.ret.rows : r.s3_file # S3File(ForeignKey)
        /\ \A k \in KeysUnder(s3, prefix) \ {ForeignKey} :
               \E r \in op.ret.rows : r.s3_file = S3File(k)

\* C11 as amended: foreign objects are reported.  When the listing under the
\* prefix holds a key without the extension, details() raises nothing and
\* reports a row for that key as for every other listed key: its name is the
\* key with the prefix replaced by "/" (nothing is cut off, there being no
\* extension), its s3_file, size and modified those of the object; the rows
\* of the other keys are still reported, one row per listed key.
ForeignObjectsReported ==
    (op.kind = "details" /\ op.fault = NoExc /\ ForeignKey \in DOMAIN s3) =>
        /\ op.exc = NoExc
        /\ op.ret.columns = <<"name", "s3_file", "size", "modified">>
        /\ [name |-> <<"/", "readme">>, s3_file |-> S3File(ForeignKey),
            size |-> s3[ForeignKey].size, modified |-> s3[ForeignKey].modified]
               \in op.ret.rows
        /\ \A k \in KeysUnder(s3, prefix) :
               Cardinality({r \in op.ret.rows : r.s3_file = S3File(k)}) = 1
        /\ Cardinality(op.ret.rows) = Cardinality(KeysUnder(s3, prefix))

\* A details() that listed the foreign object beside two stored frames.
ForeignObjectsWitness ==
    /\ op.kind = "details"
    /\ op.fault = NoExc
    /\ ForeignKey \in DOMAIN s3
    /\ Cardinality(DOMAIN s3) = 3
    /\ Cardinality(op.ret.rows) = 3

\* C12: delete is failure-tolerant.  A delete whose remote call failed, be
\* it the existence check (the prefix listing, the first remote call) or
\* the deletion itself (the second), logged the failure and raised nothing:
\* delete returned normally.
DeleteFailureTolerant ==
    (op.kind = "delete" /\ op.fault # NoExc) =>
        /\ op.exc = NoExc
        /\ op.ret = None
        /\ op.log \in {"warning", "error"}

\* C13: get distinguishes absence from failure.  A get whose remote read
\* failed with a ClientError whose code is outside the not-found set logged
\* at critical severity and raised that error unchanged; a get whose remote
\* read failed returned the empty DataFrame only when the failure was
\* classified not-found (a ClientError with a not-found code).
GetDistinguishesFailure ==
    (op.kind = "get" /\ op.fault # NoExc) =>
        LET notFound == /\ op.fault.type = "ClientError"
                        /\ op.fault.code \in {"ResourceNotFound", "ResourceNotFoundException",
                                              "EntityNotFoundException", "ValidationException",
                                              "NoSuchBucket"}
        IN  /\ (op.fault.type = "ClientError" /\ ~notFound) =>
                   (op.exc = op.fault /\ op.ret = Raised /\ op.log = "critical")
            /\ (op.exc = NoExc /\ op.ret = EmptyDataFrame) => notFound

\* C14: frame.  For distinct legal names n and m (non-empty, holding
\* neither the prefix nor the extension), a step of upsert(n, d) or of
\* delete(n) leaves the stored object of m as it was: get(m) returns the
\* same, and details() reports the same rows for m, before and after the
\* step.  A step of get, details or summary changes no stored object.
FrameEffect ==
    [][LET Holds(s, sub) == \E i \in 1..Len(s) : StartsWith(SubSeq(s, i, Len(s)), sub)
           Legal(x)      == x # <<>> /\ ~Holds(x, prefix) /\ ~Holds(x, Extension)
           RowsOf(store, x) == {r \in DetailsResult(store, NoExc).ret.rows :
                                   StartsWith(r.s3_file, GenerateS3Uri(x))}
       IN  /\ op'.kind \in {"upsert", "delete"} =>
                 \A m \in Names \ {op'.name} :
                     (Legal(m) /\ Legal(op'.name)) =>
                         /\ WrListObjects(s3', GenerateS3Uri(m))
                                = WrListObjects(s3, GenerateS3Uri(m))
                         /\ \A keySeq \in Orderings(WrListObjects(s3, GenerateS3Uri(m))) :
                                GetResult(s3', m, NoExc, keySeq)
                                    = GetResult(s3, m, NoExc, keySeq)
                         /\ RowsOf(s3', m) = RowsOf(s3, m)
           /\ op'.kind \in {"get", "details", "summary"} => s3' = s3]_vars

====
